---- MODULE Spec2Model ----
(***************************************************************************)
(* A model of the multi-threaded crawler: the blocking URL queue           *)
(* (thread_safe_queue.hpp), the visited set (thread_safe_set.hpp), the      *)
(* URL resolver, the worker loop and the monitoring loop of main            *)
(* (main.cpp).  Strings are sequences of one-character strings and          *)
(* positions are 0-based, as in std::string.                                *)
(***************************************************************************)
EXTENDS Integers, Sequences, FiniteSets, Bags, TLC

(***************************************************************************)
(* std::string                                                             *)
(***************************************************************************)
\* std::string::npos; npos + 2 wraps to 1, as -1 + 2 does.
NPOS == -1

\* s.rfind(p, 0) == 0 : s starts with p
StartsWith(s, p) ==
    /\ Len(p) <= Len(s)
    /\ SubSeq(s, 1, Len(p)) = p

\* s.find(p, from): the first position >= from where p occurs, or npos
Find(s, p, from) ==
    LET hits == {i \in 0..(Len(s) - Len(p)) :
                    i >= from /\ SubSeq(s, i + 1, i + Len(p)) = p}
    IN  IF hits = {} THEN NPOS
        ELSE CHOOSE i \in hits : \A j \in hits : i <= j

\* s.rfind(c): the last position where the character c occurs, or npos
RFind(s, c) ==
    LET hits == {i \in 0..(Len(s) - 1) : s[i + 1] = c}
    IN  IF hits = {} THEN NPOS
        ELSE CHOOSE i \in hits : \A j \in hits : j <= i

\* s.substr(0, n): the first n characters, all of s when n is npos or large
Substr0(s, n) ==
    IF n = NPOS \/ n >= Len(s) THEN s ELSE SubSeq(s, 1, n)

JAVASCRIPT == <<"j","a","v","a","s","c","r","i","p","t",":">>
MAILTO == <<"m","a","i","l","t","o",":">>
HTTP == <<"h","t","t","p",":","/","/">>
HTTPS == <<"h","t","t","p","s",":","/","/">>
SLASH == <<"/">>
SLASHSLASH == <<"/","/">>

\* "Make sure it's after the protocol part https:// (index > 7)"
ProtocolIndex == 7

\* a resolver that takes the domain of the base without looking for "//"
resolve_url_unchecked_base(base_url, relative_url) ==
    IF \/ StartsWith(relative_url, JAVASCRIPT)
       \/ StartsWith(relative_url, MAILTO)
       \/ Find(relative_url, <<"#">>, 0) # NPOS
    THEN <<>>
    ELSE IF StartsWith(relative_url, HTTP) \/ StartsWith(relative_url, HTTPS)
    THEN relative_url
    ELSE IF StartsWith(relative_url, SLASHSLASH)
    THEN LET proto_end == Find(base_url, <<":">>, 0)
         IN  IF proto_end # NPOS
             THEN Substr0(base_url, proto_end + 1) \o relative_url
             ELSE <<>>
    ELSE IF StartsWith(relative_url, SLASH)
    THEN LET protocol_pos == Find(base_url, SLASHSLASH, 0)
             domain_end == Find(base_url, SLASH, protocol_pos + 2)
         IN  IF domain_end # NPOS
             THEN Substr0(base_url, domain_end) \o relative_url
             ELSE base_url \o relative_url
    ELSE LET last_slash == RFind(base_url, "/")
         IN  IF last_slash # NPOS /\ last_slash > ProtocolIndex
             THEN Substr0(base_url, last_slash + 1) \o relative_url
             ELSE base_url \o SLASH \o relative_url

(***************************************************************************)
(* resolve_url: the empty string stands for "no URL"                       *)
(***************************************************************************)
resolve_url(base_url, relative_url) ==
    IF \/ StartsWith(relative_url, JAVASCRIPT)
       \/ StartsWith(relative_url, MAILTO)
       \/ Find(relative_url, <<"#">>, 0) # NPOS
    THEN <<>>
    ELSE IF StartsWith(relative_url, HTTP) \/ StartsWith(relative_url, HTTPS)
    THEN relative_url
    ELSE IF StartsWith(relative_url, SLASHSLASH)
    THEN LET proto_end == Find(base_url, <<":">>, 0)
         IN  IF proto_end # NPOS
             THEN Substr0(base_url, proto_end + 1) \o relative_url
             ELSE <<>>
    ELSE IF StartsWith(relative_url, SLASH)
    THEN LET protocol_pos == Find(base_url, SLASHSLASH, 0)
         IN  IF protocol_pos = NPOS THEN <<>>
             ELSE LET domain_end == Find(base_url, SLASH, protocol_pos + 2)
                  IN  IF domain_end # NPOS
                      THEN Substr0(base_url, domain_end) \o relative_url
                      ELSE base_url \o relative_url
    ELSE LET last_slash == RFind(base_url, "/")
         IN  IF last_slash # NPOS /\ last_slash > ProtocolIndex
             THEN Substr0(base_url, last_slash + 1) \o relative_url
             ELSE base_url \o SLASH \o relative_url

\* a traversal that gives up at the first href that does not resolve
search_for_links_stops(hrefs, base_url) ==
    LET r == [i \in 1..Len(hrefs) |->
                 IF hrefs[i] = <<>> THEN <<>>
                 ELSE resolve_url(base_url, hrefs[i])]
        bad == {i \in 1..Len(hrefs) : r[i] = <<>>}
        n == IF bad = {} THEN Len(hrefs)
             ELSE (CHOOSE i \in bad : \A j \in bad : i <= j) - 1
    IN  SubSeq(r, 1, n)

\* search_for_links: every non-empty href of the page, resolved against the
\* page's URL, kept when the result is not empty, in document order.
RECURSIVE search_for_links(_, _)
search_for_links(hrefs, base_url) ==
    IF hrefs = <<>> THEN <<>>
    ELSE LET resolved == IF Head(hrefs) = <<>> THEN <<>>
                         ELSE resolve_url(base_url, Head(hrefs))
             rest == search_for_links(Tail(hrefs), base_url)
         IN  IF resolved # <<>> THEN <<resolved>> \o rest ELSE rest

\* The "domain" the worker derives from the URL it is processing.
DomainOf(url) ==
    LET start_domain_pos == Find(url, SLASHSLASH, 0) + 2
        end_domain_pos == Find(url, SLASH, start_domain_pos)
    IN  Substr0(url, end_domain_pos)

\* a filter that lets every link through
SameDomain_any(link, url) == TRUE

\* The worker's filter: link.rfind(domain, 0) == 0
SameDomain(link, url) == StartsWith(link, DomainOf(url))

(***************************************************************************)
(* The web the Fetcher and the HTML parser see: for each URL the outcome    *)
(* of curl_easy_perform and of the checks that follow it, and the href      *)
(* values of the page's anchors in document order.                          *)
(***************************************************************************)
Outcomes == {"ok", "curl_error", "non_2xx", "non_html", "parse_failed"}

UrlA == HTTP \o <<"a","/">>
UrlB == HTTP \o <<"a","/","b">>
UrlC == HTTP \o <<"a","/","c">>
UrlD == HTTP \o <<"d","/">>
UrlAB == HTTP \o <<"a","b","/">>
UrlBare == HTTP \o <<"a">>

Page(outcome, hrefs) == [outcome |-> outcome, hrefs |-> hrefs]

\* A links to B and C, B links back to A and to the external D, C has no links.
WebCycle ==
    [start_url |-> UrlA,
     pages |-> (UrlA :> Page("ok", << <<"b">>, <<"/","c">> >>)
             @@ UrlB :> Page("ok", << <<"/">>, UrlD, <<"#","f">> >>)
             @@ UrlC :> Page("ok", <<>>)
             @@ UrlD :> Page("ok", << <<"x">> >>))]

\* A links to a host whose name merely starts with the seed's host name.
WebPrefix ==
    [start_url |-> UrlA,
     pages |-> (UrlA :> Page("ok", << UrlAB, <<"b">> >>)
             @@ UrlAB :> Page("ok", << <<"/","e">> >>)
             @@ UrlB :> Page("non_html", << <<"c">> >>))]

\* B is in the frontier twice; every fetch after the seed's fails.
WebFailures ==
    [start_url |-> UrlA,
     pages |-> (UrlA :> Page("ok", << <<"b">>, <<"b">>, <<"/","c">>, <<>> >>)
             @@ UrlB :> Page("non_2xx", << <<"c">> >>)
             @@ UrlC :> Page("parse_failed", << <<"b">> >>))]

\* The seed is a bare authority; its links are relative and scheme-relative.
WebBare ==
    [start_url |-> UrlBare,
     pages |-> (UrlBare :> Page("ok", << <<"c">>, MAILTO \o <<"x">>,
                                        <<"/","/","a","/","b">> >>)
             @@ UrlB :> Page("ok", << <<"c">> >>))]

Webs == {WebCycle, WebPrefix, WebFailures, WebBare}

\* A URL the web does not serve fails in transport.
Fetch(w, url) ==
    IF url \in DOMAIN w.pages THEN w.pages[url] ELSE Page("curl_error", <<>>)

(***************************************************************************)
(* ThreadSafeQueue and ThreadSafeSet: what each critical section computes  *)
(***************************************************************************)
\* queue.push(item)
QueuePush(q, item) == Append(q, item)

\* a queue that hands out its newest item
QueueFront_back(q) == q[Len(q)]

\* queue.front()
QueueFront(q) == Head(q)

\* queue.pop()
QueuePop(q) == Tail(q)

\* the predicate of cond.wait
WaitPredicate(q, stop) == q # <<>> \/ stop

\* a pop that gives up as soon as the stop flag is set
PopReturnsStop_flag_only(q, stop) == stop

\* the test after the wait: pop returns std::nullopt
PopReturnsStop(q, stop) == stop /\ q = <<>>

\* cond.notify_one(): the sets of waiting threads it may wake
NotifyOne(waiters) == IF waiters = {} THEN {{}} ELSE {{t} : t \in waiters}

\* a request_stop that calls notify_one
NotifyAll_wakes_one(waiters) == NotifyOne(waiters)

\* cond.notify_all()
NotifyAll(waiters) == {waiters}

\* an insert that reports success whether or not the URL was present
InsertSecond_always(S, url) == TRUE

\* visited_urls.insert(url).second
InsertSecond(S, url) == url \notin S

\* an insert that tests membership and does not store the URL
InsertSet_forgets(S, url) == S

\* the set after visited_urls.insert(url)
InsertSet(S, url) == S \cup {url}

\* main's test: if (is_queue_empty && current_active == 0)
MonitorIdle(is_queue_empty, current_active) ==
    is_queue_empty /\ current_active = 0

(***************************************************************************)
(* State                                                                   *)
(***************************************************************************)
\* main.cpp fixes NUM_THREADS at 4; the pool is checked with PoolSize threads.
PoolSize == 2
NUM_THREADS == PoolSize
Workers == 1..NUM_THREADS

VARIABLES
    web,             \* the web of this run (never changes)
    queue,           \* url_queue.queue
    stop_requested,  \* url_queue.stop_requested
    visited_urls,    \* visited_urls.visited_urls
    active_workers,  \* the atomic counter
    pc,              \* where each worker thread is
    url,             \* each worker's url ("" outside an iteration)
    links,           \* each worker's links still to be looked at
    main_pc,         \* where main is
    is_queue_empty,  \* main's local
    current_active,  \* main's local
    fetched,         \* history: bag of the URLs given to curl_easy_perform
    insert_calls,    \* history: bag of the URLs given to visited_urls.insert
    insert_wins,     \* history: bag of the URLs for which insert returned true
    stop_calls,      \* history: number of calls of request_stop
    idle_seen,       \* history: the counter was 0 with the queue empty
    drained,         \* history: pop returned an item with the stop flag set
    counted,         \* history: the threads whose increment is outstanding
    resolver         \* a call of resolve_url on its own: arguments and result

vars == <<web, queue, stop_requested, visited_urls, active_workers, pc, url,
          links, main_pc, is_queue_empty, current_active, fetched,
          insert_calls, insert_wins, stop_calls, idle_seen, drained, counted,
          resolver>>

hist == <<fetched, insert_calls, insert_wins, stop_calls, idle_seen, drained,
          counted>>

\* the crawl makes no call of resolve_url outside search_for_links
NoCall == [at |-> "none", base_url |-> <<>>, relative_url |-> <<>>, result |-> <<>>]

Waiting == {t \in Workers : pc[t] = "waiting"}

\* The threads a notification wakes leave the wait and must take the mutex.
Wake(p, woken) == [t \in Workers |-> IF t \in woken THEN "woken" ELSE p[t]]

Init ==
    /\ web \in Webs
    /\ queue = <<>>
    /\ stop_requested = FALSE
    /\ visited_urls = {}
    /\ active_workers = 0
    /\ pc = [t \in Workers |-> "new"]
    /\ url = [t \in Workers |-> <<>>]
    /\ links = [t \in Workers |-> <<>>]
    /\ main_pc = "seed"
    /\ is_queue_empty = FALSE
    /\ current_active = 0
    /\ fetched = EmptyBag
    /\ insert_calls = EmptyBag
    /\ insert_wins = EmptyBag
    /\ stop_calls = 0
    /\ idle_seen = FALSE
    /\ drained = FALSE
    /\ counted = {}
    /\ resolver = NoCall

(***************************************************************************)
(* main                                                                    *)
(***************************************************************************)
\* url_queue.push(start_url), before any thread exists
MainPushSeed ==
    /\ main_pc = "seed"
    /\ queue' = QueuePush(queue, web.start_url)
    /\ main_pc' = "launch"
    /\ UNCHANGED <<web, stop_requested, visited_urls, active_workers, pc, url,
                   links, is_queue_empty, current_active>>
    /\ UNCHANGED <<hist, resolver>>

\* the loop of workers.emplace_back
MainLaunch ==
    /\ main_pc = "launch"
    /\ pc' = [t \in Workers |-> "init"]
    /\ main_pc' = "read_empty"
    /\ UNCHANGED <<web, queue, stop_requested, visited_urls, active_workers,
                   url, links, is_queue_empty, current_active>>
    /\ UNCHANGED <<hist, resolver>>

\* after the sleep: is_queue_empty = url_queue.empty()
MonitorReadEmpty ==
    /\ main_pc = "read_empty"
    /\ is_queue_empty' = (queue = <<>>)
    /\ main_pc' = "read_active"
    /\ UNCHANGED <<web, queue, stop_requested, visited_urls, active_workers,
                   pc, url, links, current_active>>
    /\ UNCHANGED <<hist, resolver>>

\* current_active = active_workers.load()
MonitorReadActive ==
    /\ main_pc = "read_active"
    /\ current_active' = active_workers
    /\ main_pc' = "decide"
    /\ UNCHANGED <<web, queue, stop_requested, visited_urls, active_workers,
                   pc, url, links, is_queue_empty>>
    /\ UNCHANGED <<hist, resolver>>

\* the test failed: sleep and look again
MonitorContinue ==
    /\ main_pc = "decide"
    /\ ~MonitorIdle(is_queue_empty, current_active)
    /\ main_pc' = "read_empty"
    /\ UNCHANGED <<web, queue, stop_requested, visited_urls, active_workers,
                   pc, url, links, is_queue_empty, current_active>>
    /\ UNCHANGED <<hist, resolver>>

\* url_queue.request_stop(); break
MonitorRequestStop ==
    /\ main_pc = "decide"
    /\ MonitorIdle(is_queue_empty, current_active)
    /\ stop_requested' = TRUE
    /\ \E woken \in NotifyAll(Waiting) : pc' = Wake(pc, woken)
    /\ stop_calls' = stop_calls + 1
    /\ main_pc' = "join"
    /\ UNCHANGED <<web, queue, visited_urls, active_workers, url, links,
                   is_queue_empty, current_active>>
    /\ UNCHANGED <<fetched, insert_calls, insert_wins, idle_seen, drained,
                   counted, resolver>>

\* every worker.join() has returned
MainJoin ==
    /\ main_pc = "join"
    /\ \A t \in Workers : pc[t] \in {"failed", "finished"}
    /\ main_pc' = "done"
    /\ UNCHANGED <<web, queue, stop_requested, visited_urls, active_workers,
                   pc, url, links, is_queue_empty, current_active>>
    /\ UNCHANGED <<hist, resolver>>

(***************************************************************************)
(* worker_thread_function                                                  *)
(***************************************************************************)
\* curl_easy_init() gave a handle
WorkerInit(t) ==
    /\ pc[t] = "init"
    /\ pc' = [pc EXCEPT ![t] = "pop"]
    /\ UNCHANGED <<web, queue, stop_requested, visited_urls, active_workers,
                   url, links, main_pc, is_queue_empty, current_active>>
    /\ UNCHANGED <<hist, resolver>>

\* curl_easy_init() gave no handle: the thread returns
WorkerInitFails(t) ==
    /\ pc[t] = "init"
    /\ pc' = [pc EXCEPT ![t] = "failed"]
    /\ UNCHANGED <<web, queue, stop_requested, visited_urls, active_workers,
                   url, links, main_pc, is_queue_empty, current_active>>
    /\ UNCHANGED <<hist, resolver>>

\* url_queue.pop() with the mutex held, on entry or after a wake-up:
\* wait again, return nullopt (the worker breaks and finishes), or return
\* the front item.
WorkerPop(t) ==
    /\ pc[t] \in {"pop", "woken"}
    /\ IF ~WaitPredicate(queue, stop_requested)
       THEN /\ pc' = [pc EXCEPT ![t] = "waiting"]
            /\ UNCHANGED <<queue, url, idle_seen, drained>>
       ELSE IF PopReturnsStop(queue, stop_requested)
       THEN /\ pc' = [pc EXCEPT ![t] = "finished"]
            /\ UNCHANGED <<queue, url, idle_seen, drained>>
       ELSE /\ url' = [url EXCEPT ![t] = QueueFront(queue)]
            /\ queue' = QueuePop(queue)
            /\ pc' = [pc EXCEPT ![t] = "insert"]
            /\ idle_seen' = (idle_seen \/ (queue' = <<>> /\ active_workers = 0))
            /\ drained' = (drained \/ stop_requested)
    /\ UNCHANGED <<web, stop_requested, visited_urls, active_workers, links,
                   main_pc, is_queue_empty, current_active>>
    /\ UNCHANGED <<fetched, insert_calls, insert_wins, stop_calls, counted,
                   resolver>>

\* a waiting thread may wake without a notification
SpuriousWake(t) ==
    /\ pc[t] = "waiting"
    /\ pc' = [pc EXCEPT ![t] = "woken"]
    /\ UNCHANGED <<web, queue, stop_requested, visited_urls, active_workers,
                   url, links, main_pc, is_queue_empty, current_active>>
    /\ UNCHANGED <<hist, resolver>>

\* a worker that goes on to process the URL whatever insert returned
WorkerInsert_counts_duplicates(t) ==
    /\ pc[t] = "insert"
    /\ visited_urls' = InsertSet(visited_urls, url[t])
    /\ insert_calls' = insert_calls (+) SetToBag({url[t]})
    /\ pc' = [pc EXCEPT ![t] = "increment"]
    /\ insert_wins' = IF InsertSecond(visited_urls, url[t])
                      THEN insert_wins (+) SetToBag({url[t]})
                      ELSE insert_wins
    /\ url' = url
    /\ UNCHANGED <<web, queue, stop_requested, active_workers, links, main_pc,
                   is_queue_empty, current_active>>
    /\ UNCHANGED <<fetched, stop_calls, idle_seen, drained, counted, resolver>>

\* if (!visited_urls.insert(url)) continue;
WorkerInsert(t) ==
    /\ pc[t] = "insert"
    /\ visited_urls' = InsertSet(visited_urls, url[t])
    /\ insert_calls' = insert_calls (+) SetToBag({url[t]})
    /\ IF InsertSecond(visited_urls, url[t])
       THEN /\ pc' = [pc EXCEPT ![t] = "increment"]
            /\ insert_wins' = insert_wins (+) SetToBag({url[t]})
            /\ url' = url
       ELSE /\ pc' = [pc EXCEPT ![t] = "pop"]
            /\ insert_wins' = insert_wins
            /\ url' = [url EXCEPT ![t] = <<>>]
    /\ UNCHANGED <<web, queue, stop_requested, active_workers, links, main_pc,
                   is_queue_empty, current_active>>
    /\ UNCHANGED <<fetched, stop_calls, idle_seen, drained, counted, resolver>>

\* active_workers++
WorkerIncrement(t) ==
    /\ pc[t] = "increment"
    /\ active_workers' = active_workers + 1
    /\ pc' = [pc EXCEPT ![t] = "fetch"]
    /\ UNCHANGED <<web, queue, stop_requested, visited_urls, url, links,
                   main_pc, is_queue_empty, current_active>>
    /\ counted' = counted \cup {t}
    /\ UNCHANGED <<fetched, insert_calls, insert_wins, stop_calls, idle_seen,
                   drained, resolver>>

\* a worker that decrements the counter as soon as the fetch has returned
WorkerFetch_decrements(t) ==
    /\ pc[t] = "fetch"
    /\ fetched' = fetched (+) SetToBag({url[t]})
    /\ LET page == Fetch(web, url[t])
       IN  links' = [links EXCEPT ![t] =
                        IF page.outcome = "ok"
                        THEN search_for_links(page.hrefs, url[t])
                        ELSE <<>>]
    /\ pc' = [pc EXCEPT ![t] = "links"]
    /\ active_workers' = active_workers - 1
    /\ UNCHANGED <<web, queue, stop_requested, visited_urls, url, main_pc,
                   is_queue_empty, current_active>>
    /\ counted' = counted \ {t}
    /\ UNCHANGED <<insert_calls, insert_wins, stop_calls, idle_seen, drained,
                   resolver>>

\* a worker that parses whatever the fetch left in the buffer
WorkerFetch_ignores_outcome(t) ==
    /\ pc[t] = "fetch"
    /\ fetched' = fetched (+) SetToBag({url[t]})
    /\ LET page == Fetch(web, url[t])
       IN  links' = [links EXCEPT ![t] =
                        search_for_links(page.hrefs, url[t])]
    /\ pc' = [pc EXCEPT ![t] = "links"]
    /\ UNCHANGED <<web, queue, stop_requested, visited_urls, active_workers,
                   url, main_pc, is_queue_empty, current_active>>
    /\ UNCHANGED <<insert_calls, insert_wins, stop_calls, idle_seen, drained,
                   counted, resolver>>

\* curl_easy_perform, the status and content-type tests, gumbo_parse and
\* search_for_links: links is filled only when all of them succeed
WorkerFetch(t) ==
    /\ pc[t] = "fetch"
    /\ fetched' = fetched (+) SetToBag({url[t]})
    /\ LET page == Fetch(web, url[t])
       IN  links' = [links EXCEPT ![t] =
                        IF page.outcome = "ok"
                        THEN search_for_links(page.hrefs, url[t])
                        ELSE <<>>]
    /\ pc' = [pc EXCEPT ![t] = "links"]
    /\ UNCHANGED <<web, queue, stop_requested, visited_urls, active_workers,
                   url, main_pc, is_queue_empty, current_active>>
    /\ UNCHANGED <<insert_calls, insert_wins, stop_calls, idle_seen, drained,
                   counted, resolver>>

\* one iteration of "for (link : links)": a same-domain link is pushed,
\* which notifies one waiting thread
WorkerLink(t) ==
    /\ pc[t] = "links"
    /\ links[t] # <<>>
    /\ links' = [links EXCEPT ![t] = Tail(links[t])]
    /\ IF SameDomain(Head(links[t]), url[t])
       THEN /\ queue' = QueuePush(queue, Head(links[t]))
            /\ \E woken \in NotifyOne(Waiting) : pc' = Wake(pc, woken)
       ELSE UNCHANGED <<queue, pc>>
    /\ UNCHANGED <<web, stop_requested, visited_urls, active_workers, url,
                   main_pc, is_queue_empty, current_active>>
    /\ UNCHANGED <<hist, resolver>>

\* active_workers--, after the loop or after any failure
WorkerDecrement(t) ==
    /\ pc[t] = "links"
    /\ links[t] = <<>>
    /\ active_workers' = active_workers - 1
    /\ pc' = [pc EXCEPT ![t] = "pop"]
    /\ url' = [url EXCEPT ![t] = <<>>]
    /\ idle_seen' = (idle_seen \/ (queue = <<>> /\ active_workers' = 0))
    /\ UNCHANGED <<web, queue, stop_requested, visited_urls, links, main_pc,
                   is_queue_empty, current_active>>
    /\ counted' = counted \ {t}
    /\ UNCHANGED <<fetched, insert_calls, insert_wins, stop_calls, drained,
                   resolver>>

Worker(t) ==
    \/ WorkerInit(t)
    \/ WorkerInitFails(t)
    \/ WorkerPop(t)
    \/ WorkerInsert(t)
    \/ WorkerIncrement(t)
    \/ WorkerFetch(t)
    \/ WorkerLink(t)
    \/ WorkerDecrement(t)

Main ==
    \/ MainPushSeed
    \/ MainLaunch
    \/ MonitorReadEmpty
    \/ MonitorReadActive
    \/ MonitorContinue
    \/ MonitorRequestStop
    \/ MainJoin

Next ==
    \/ MainPushSeed
    \/ MainLaunch
    \/ MonitorReadEmpty
    \/ MonitorReadActive
    \/ MonitorContinue
    \/ MonitorRequestStop
    \/ MainJoin
    \/ \E t \in Workers : WorkerInit(t)
    \/ \E t \in Workers : WorkerInitFails(t)
    \/ \E t \in Workers : WorkerPop(t)
    \/ \E t \in Workers : SpuriousWake(t)
    \/ \E t \in Workers : WorkerInsert(t)
    \/ \E t \in Workers : WorkerIncrement(t)
    \/ \E t \in Workers : WorkerFetch(t)
    \/ \E t \in Workers : WorkerLink(t)
    \/ \E t \in Workers : WorkerDecrement(t)

Spec == Init /\ [][Next]_vars

\* Worker(t) can take a step exactly when thread t exists, has not returned
\* and is not blocked in the wait of pop().
Running(t) == pc[t] \notin {"new", "waiting", "failed", "finished"}

\* Every thread that can run does run: weak fairness of main and of each
\* worker, the latter written out with Running(t) for ENABLED <<Worker(t)>>_vars.
\* A wake-up without a notification is never owed.
FairSpec ==
    /\ Spec
    /\ WF_vars(Main)
    /\ \A t \in Workers : ([]<>(~Running(t))) \/ ([]<><<Worker(t)>>_vars)

(***************************************************************************)
(* Properties                                                              *)
(***************************************************************************)
InPop(t) == pc[t] \in {"pop", "waiting", "woken"}

\* Checked as an invariant of Spec: Running(t) is ENABLED <<Worker(t)>>_vars.
RunningIsEnabled ==
    \A t \in Workers : Running(t) <=> ENABLED <<Worker(t)>>_vars

QueueSet == {queue[i] : i \in 1..Len(queue)}

\* The scheme+authority comparison the filter is meant to make.
SameAuthority(u, v) == DomainOf(u) = DomainOf(v)

\* C1: once the counter has been 0 with the frontier empty (the seed having
\* been pushed), no step pushes to the frontier.
C1_FixedPoint == [][idle_seen => Len(queue') <= Len(queue)]_vars

\* C2: the run terminates: main's joins complete, request_stop having been
\* called exactly once and every worker thread having returned.
C2_Termination ==
    <>(/\ main_pc = "done"
       /\ stop_calls = 1
       /\ \A t \in Workers : pc[t] \in {"finished", "failed"})

\* With at least one worker in its loop the run does terminate.
TerminatesWithAWorker ==
    (\E t \in Workers : pc[t] = "pop") ~> (main_pc = "done" /\ stop_calls = 1)

\* The pages reachable from the seed through links to the seed's own
\* scheme+authority, following the links of the pages that parse.
RECURSIVE ReachableFrom(_, _)
ReachableFrom(w, R) ==
    LET more == {l \in UNION {{search_for_links(Fetch(w, u).hrefs, u)[i] :
                                 i \in 1..Len(search_for_links(Fetch(w, u).hrefs, u))} :
                              u \in {r \in R : Fetch(w, r).outcome = "ok"}} :
                    SameAuthority(l, w.start_url)}
    IN  IF more \subseteq R THEN R ELSE ReachableFrom(w, R \cup more)

Reachable(w) == ReachableFrom(w, {w.start_url})

CrawlComplete ==
    /\ \A u \in visited_urls \cup BagToSet(fetched) : SameAuthority(u, web.start_url)
    /\ main_pc = "done" => visited_urls = Reachable(web)

\* C3: when the workers have exited and been joined the visited set is the
\* set of pages reachable from the seed through same-domain links, and no
\* page of another domain is ever fetched or inserted.
C3_Completeness == CrawlComplete

\* On the webs without a host name that extends the seed's, the crawl is complete.
CompleteWithoutPrefixHost == (web # WebPrefix) => CrawlComplete

\* C4: of all the calls of insert with one URL, exactly one returned true.
C4_DedupExactness ==
    /\ \A u \in BagToSet(insert_calls) : CopiesIn(u, insert_wins) = 1
    /\ BagToSet(insert_wins) \subseteq BagToSet(insert_calls)

\* two threads have called insert with the same URL
C4_Witness == \E u \in BagToSet(insert_calls) : CopiesIn(u, insert_calls) >= 2

\* C5: no URL is given to the Fetcher more than once.
C5_AtMostOnceFetch == \A u \in BagToSet(fetched) : CopiesIn(u, fetched) = 1

\* a URL that was in the frontier twice, popped twice, and fetched
C5_Witness ==
    \E u \in BagToSet(fetched) :
        /\ CopiesIn(u, insert_calls) >= 2
        /\ \A t \in Workers : url[t] # u

\* C6: once request_stop has been called, a thread that is in pop() (blocked
\* in the wait or about to take the mutex) leaves pop(): with an item or with
\* nullopt.
C6_NoLostWakeupOnStop ==
    \A t \in Workers : (stop_requested /\ InPop(t)) ~> ~InPop(t)

\* request_stop found two threads blocked in pop() and woke both
C6_Witness ==
    /\ stop_requested
    /\ Cardinality({t \in Workers : pc[t] = "woken"}) >= 2

\* C7: a thread leaves pop() with nullopt only when the stop flag is set and
\* the queue is empty; when it leaves pop() with the queue non-empty it has
\* removed and been given the front item, whatever the stop flag says; it
\* goes (back) to waiting only with the queue empty and the flag not set.
C7_StopOnlyWhenDrained ==
    [][\A t \in Workers :
          (pc[t] \in {"pop", "woken"} /\ pc'[t] # pc[t]) =>
             IF queue = <<>>
             THEN IF stop_requested THEN pc'[t] = "finished"
                                    ELSE pc'[t] = "waiting"
             ELSE /\ pc'[t] = "insert"
                  /\ url'[t] = Head(queue)
                  /\ queue' = Tail(queue)]_vars

\* a pop that returned an item with the stop flag set, and one that returned nullopt
C7_Witness == drained /\ \E t \in Workers : pc[t] = "finished"

\* C8: no URL whose scheme+authority differs from the seed's is pushed to
\* the frontier.
C8_DomainFilter == \A u \in QueueSet : SameAuthority(u, web.start_url)

\* C9: every URL pushed to the frontier is popped: a non-empty frontier
\* becomes empty.
C9_PushedIsPopped == (queue # <<>>) ~> (queue = <<>>)

\* With at least one worker in its loop every pushed URL is popped.
PoppedWithAWorker ==
    (queue # <<>> /\ \E t \in Workers : Running(t) /\ pc[t] # "init")
        ~> (queue = <<>>)

\* C10: every step that changes the queue either appends one item at the
\* tail or removes the head and hands it to the thread that popped.
C10_Fifo ==
    [][\/ queue' = queue
       \/ /\ Len(queue') = Len(queue) + 1
          /\ SubSeq(queue', 1, Len(queue)) = queue
       \/ /\ queue # <<>>
          /\ queue' = Tail(queue)
          /\ \E t \in Workers :
                /\ pc[t] \in {"pop", "woken"}
                /\ pc'[t] = "insert"
                /\ url'[t] = Head(queue)]_vars

\* B and C were pushed in that order by the thread that fetched A; B has
\* been popped and C is still queued
C10_Witness ==
    /\ web = WebCycle
    /\ queue = <<UrlC>>
    /\ \E t \in Workers : pc[t] = "insert" /\ url[t] = UrlB

\* the links search_for_links finds in the page of u
LinksOf(u) ==
    LET found == search_for_links(Fetch(web, u).hrefs, u)
    IN  {found[i] : i \in 1..Len(found)}

\* C11: a thread pushes a link only while its increment is outstanding, and
\* its decrement comes, once, when it has no link left to look at.
C11_DecrementAfterPushes ==
    [][\A t \in Workers :
          /\ (links'[t] # links[t] /\ Len(queue') > Len(queue)) =>
                (t \in counted /\ t \in counted')
          /\ (t \in counted /\ t \notin counted') =>
                (links[t] = <<>> /\ active_workers' = active_workers - 1)]_vars

\* a thread has pushed a link of its page, has no link left and has not
\* decremented yet
C11_Witness ==
    \E t \in counted :
        /\ pc[t] = "links"
        /\ links[t] = <<>>
        /\ QueueSet \cap LinksOf(url[t]) # {}

\* the fetch of u fails in transport, in its status, in its content type or
\* in the parse
Failed(u) == Fetch(web, u).outcome # "ok"

\* C12: a thread whose fetch failed has no link to push, its URL is in the
\* visited set and stays there, no URL is fetched twice, and its next step is
\* the single decrement, which takes it back to pop() and touches neither the
\* queue, nor the stop flag, nor main, nor any other thread.
C12_FailuresAreLocal ==
    /\ [](\A t \in Workers : (pc[t] = "links" /\ Failed(url[t])) =>
              /\ links[t] = <<>>
              /\ url[t] \in visited_urls
              /\ t \in counted
              /\ CopiesIn(url[t], fetched) = 1)
    /\ [][/\ visited_urls \subseteq visited_urls'
          /\ \A t \in Workers :
                (pc[t] = "links" /\ Failed(url[t]) /\ pc'[t] # pc[t]) =>
                   /\ pc'[t] = "pop"
                   /\ active_workers' = active_workers - 1
                   /\ counted' = counted \ {t}
                   /\ queue' = queue
                   /\ stop_requested' = stop_requested
                   /\ main_pc' = main_pc
                   /\ \A o \in Workers \ {t} : pc'[o] = pc[o]]_vars

\* a failed fetch has been dealt with: its thread has moved on
C12_Witness ==
    \E u \in BagToSet(fetched) :
        /\ Failed(u)
        /\ u \in visited_urls
        /\ \A t \in Workers : url[t] # u

\* A thread fails only out of curl_easy_init, in a step that leaves the queue
\* and the counter alone, and it stays failed, with no URL and uncounted.
InitFailureInert ==
    /\ [](\A t \in Workers : pc[t] = "failed" => (url[t] = <<>> /\ t \notin counted))
    /\ [][\A t \in Workers :
             /\ pc[t] = "failed" => pc'[t] = "failed"
             /\ (pc[t] # "failed" /\ pc'[t] = "failed") =>
                   /\ pc[t] = "init"
                   /\ queue' = queue
                   /\ active_workers' = active_workers]_vars

\* C13: a thread whose curl_easy_init fails returns without popping or
\* touching the counter, and whichever threads fail, request_stop is called
\* once and main's joins complete.
C13_InitFailureHarmless ==
    /\ InitFailureInert
    /\ (\E t \in Workers : pc[t] = "failed")
          ~> (main_pc = "done" /\ stop_calls = 1)

\* When some thread does enter its loop, the failures of the others do not
\* keep the run from ending.
InitFailureOfSomeHarmless ==
    /\ InitFailureInert
    /\ ((\E t \in Workers : pc[t] = "failed") /\ (\E t \in Workers : pc[t] = "pop"))
          ~> (main_pc = "done" /\ stop_calls = 1)

\* C16: in the step in which main calls request_stop the queue is empty and
\* the counter is 0.
C16_StopOnlyWhenIdle ==
    [][(main_pc = "decide" /\ main_pc' = "join") =>
          (queue = <<>> /\ active_workers = 0)]_vars

\* What does hold of that step: main's two reads were an empty queue and 0.
StopOnlyOnIdleReads ==
    [][(main_pc = "decide" /\ main_pc' = "join") =>
          (is_queue_empty /\ current_active = 0 /\ ~stop_requested
             /\ stop_requested')]_vars

Exited(t) == pc[t] \in {"failed", "finished"}

\* C17: once the threads that entered the loop have all left it (some thread
\* did enter it), the queue is empty and the counter is 0.
C17_NoWorkAbandoned ==
    ((\A t \in Workers : Exited(t)) /\ (\E t \in Workers : pc[t] = "finished"))
        => (queue = <<>> /\ active_workers = 0)

\* all threads have left, and one of them popped an item after request_stop
C17_Witness ==
    /\ \A t \in Workers : Exited(t)
    /\ \E t \in Workers : pc[t] = "finished"
    /\ drained

\* the threads between their increment and their decrement
Processing == {t \in Workers : pc[t] \in {"fetch", "links"}}

\* C18: the counter is the number of threads between increment and
\* decrement, so it lies in 0..N, and every increment follows an insert that
\* returned true: the inserts that returned true are those not yet counted,
\* those being fetched and those already fetched.
C18_CounterIsProcessingCount ==
    /\ active_workers = Cardinality(Processing)
    /\ active_workers \in 0..NUM_THREADS
    /\ counted = Processing
    /\ \A t \in Workers : pc[t] = "increment" => url[t] \in visited_urls
    /\ BagCardinality(insert_wins) =
          Cardinality({t \in Workers : pc[t] \in {"increment", "fetch"}})
             + BagCardinality(fetched)

\* every thread is processing at once, after some insert returned false
C18_Witness ==
    /\ active_workers = NUM_THREADS
    /\ BagCardinality(insert_calls) > BagCardinality(insert_wins)

\* C19: every URL in the queue or the visited set starts with the
\* scheme+authority string of the seed, when the seed contains "//".
C19_SeedPrefix ==
    (Find(web.start_url, SLASHSLASH, 0) # NPOS) =>
        \A u \in QueueSet \cup visited_urls :
            StartsWith(u, DomainOf(web.start_url))

\* a queued link was let through by a page whose own scheme+authority is not
\* the seed's
C19_Witness ==
    /\ Find(web.start_url, SLASHSLASH, 0) # NPOS
    /\ \E t \in Workers :
          /\ pc[t] = "links"
          /\ ~SameAuthority(url[t], web.start_url)
          /\ QueueSet \cap LinksOf(url[t]) # {}

\* what search_for_links does with one href
Resolved(base_url, href) ==
    IF href = <<>> THEN <<>> ELSE resolve_url(base_url, href)

IsUrl(s) == s # <<>>

\* C20: the empty string is never in the queue, in the visited set or among
\* a thread's links, and the links of a page are the resolved values of all
\* its hrefs, in order, without those that did not resolve.
C20_UnresolvableDropped ==
    /\ [](/\ <<>> \notin QueueSet \cup visited_urls
          /\ \A t \in Workers : \A i \in 1..Len(links[t]) : links[t][i] # <<>>)
    /\ [][\A t \in Workers :
             (pc[t] = "fetch" /\ pc'[t] = "links" /\ ~Failed(url[t])) =>
                 LET h == Fetch(web, url[t]).hrefs
                 IN  links'[t] =
                        SelectSeq([i \in 1..Len(h) |-> Resolved(url[t], h[i])],
                                  IsUrl)]_vars

\* an href that does not resolve precedes one whose URL is now in the queue
C20_Witness ==
    \E t \in Workers :
        /\ pc[t] = "links"
        /\ ~Failed(url[t])
        /\ LET h == Fetch(web, url[t]).hrefs
           IN  \E i, j \in 1..Len(h) :
                  /\ i < j
                  /\ h[i] # <<>>
                  /\ Resolved(url[t], h[i]) = <<>>
                  /\ Resolved(url[t], h[j]) \in QueueSet

(***************************************************************************)
(* resolve_url called on its own: one call per behaviour, its arguments     *)
(* drawn from the bases and hrefs below.                                    *)
(***************************************************************************)
\* "https://example.com/a/b"
BaseTable ==
    <<"h","t","t","p","s",":","/","/","e","x","a","m","p","l","e",".","c",
    "o","m","/","a","/","b">>
\* "http://a/"
BaseRoot == <<"h","t","t","p",":","/","/","a","/">>
\* "http://a"
BaseAuthority == <<"h","t","t","p",":","/","/","a">>
\* "https://a/b/c"
BaseDeep == <<"h","t","t","p","s",":","/","/","a","/","b","/","c">>
\* "ftp://x/y"
BaseFtp == <<"f","t","p",":","/","/","x","/","y">>
\* "gopher://h"
BaseGopher == <<"g","o","p","h","e","r",":","/","/","h">>
\* "example.com/a/b/c"
BaseNoScheme ==
    <<"e","x","a","m","p","l","e",".","c","o","m","/","a","/","b","/","c">>
\* "mailto:x"
BaseMailto == <<"m","a","i","l","t","o",":","x">>
\* "x"
BaseWord == <<"x">>
\* "a/b"
BasePath == <<"a","/","b">>
\* "/about"
HrefAbout == <<"/","a","b","o","u","t">>
\* "//cdn.example.com/x"
HrefCdn ==
    <<"/","/","c","d","n",".","e","x","a","m","p","l","e",".","c","o","m",
    "/","x">>
\* "https://other.com/y"
HrefOther ==
    <<"h","t","t","p","s",":","/","/","o","t","h","e","r",".","c","o","m",
    "/","y">>
\* "#frag"
HrefFrag == <<"#","f","r","a","g">>
\* "relative.html"
HrefRelative == <<"r","e","l","a","t","i","v","e",".","h","t","m","l">>
\* "http://a/b"
HrefHttp == <<"h","t","t","p",":","/","/","a","/","b">>
\* "javascript:x"
HrefScript == <<"j","a","v","a","s","c","r","i","p","t",":","x">>
\* "mailto:x"
HrefMail == <<"m","a","i","l","t","o",":","x">>
\* "z"
HrefZ == <<"z">>
\* "/"
HrefSlash == <<"/">>
\* "//h"
HrefHost == <<"/","/","h">>
\* "a#b"
HrefInnerFrag == <<"a","#","b">>
\* "../z"
HrefUp == <<".",".","/","z">>
Bases ==
    {BaseTable, BaseRoot, BaseAuthority, BaseDeep, BaseFtp, BaseGopher,
    BaseNoScheme, BaseMailto, BaseWord, BasePath}
Hrefs ==
    {HrefAbout, HrefCdn, HrefOther, HrefFrag, HrefRelative, HrefHttp,
    HrefScript, HrefMail, HrefZ, HrefSlash, HrefHost, HrefInnerFrag, HrefUp}

ResolveInit ==
    /\ web = WebCycle
    /\ queue = <<>>
    /\ stop_requested = FALSE
    /\ visited_urls = {}
    /\ active_workers = 0
    /\ pc = [t \in Workers |-> "new"]
    /\ url = [t \in Workers |-> <<>>]
    /\ links = [t \in Workers |-> <<>>]
    /\ main_pc = "seed"
    /\ is_queue_empty = FALSE
    /\ current_active = 0
    /\ fetched = EmptyBag
    /\ insert_calls = EmptyBag
    /\ insert_wins = EmptyBag
    /\ stop_calls = 0
    /\ idle_seen = FALSE
    /\ drained = FALSE
    /\ counted = {}
    /\ \E b \in Bases, h \in Hrefs :
          resolver = [at |-> "called", base_url |-> b, relative_url |-> h,
                      result |-> <<>>]

\* the call returns
ResolveCall ==
    /\ resolver.at = "called"
    /\ resolver' = [resolver EXCEPT
                       !.at = "returned",
                       !.result = resolve_url(resolver.base_url,
                                              resolver.relative_url)]
    /\ UNCHANGED <<web, queue, stop_requested, visited_urls, active_workers,
                   pc, url, links, main_pc, is_queue_empty, current_active>>
    /\ UNCHANGED hist

ResolveNext == ResolveCall

ResolveSpec == ResolveInit /\ [][ResolveNext]_vars

Returned == resolver.at = "returned"
HasSlashes(base) == Find(base, SLASHSLASH, 0) # NPOS

(***************************************************************************)
(* The resolver as the design document words it: five rules, in order.      *)
(***************************************************************************)
\* rule 1: a script or mail pseudo-scheme, or a fragment marker
Rejected(href) ==
    \/ StartsWith(href, JAVASCRIPT)
    \/ StartsWith(href, MAILTO)
    \/ \E i \in 1..Len(href) : href[i] = "#"

\* rule 2: an absolute HTTP/HTTPS scheme
Absolute(href) == StartsWith(href, HTTP) \/ StartsWith(href, HTTPS)

\* the base's text up to and including its colon; none without a colon
SchemeOf(base) ==
    LET colons == {i \in 1..Len(base) : base[i] = ":"}
    IN  IF colons = {} THEN <<>>
        ELSE SubSeq(base, 1, CHOOSE i \in colons : \A j \in colons : i <= j)

\* the length of the scheme+authority prefix of a base that has "//": up to
\* the first slash after the "//", the whole base when there is none
AuthorityEnd(base) ==
    LET after == Find(base, SLASHSLASH, 0) + 2
        seps == {i \in (after + 1)..Len(base) : base[i] = "/"}
    IN  IF seps = {} THEN Len(base)
        ELSE (CHOOSE i \in seps : \A j \in seps : i <= j) - 1

SpecResolve(base, href) ==
    IF Rejected(href) THEN <<>>
    ELSE IF Absolute(href) THEN href
    ELSE IF StartsWith(href, SLASHSLASH)
    THEN IF SchemeOf(base) = <<>> THEN <<>> ELSE SchemeOf(base) \o href
    ELSE IF StartsWith(href, SLASH)
    THEN SubSeq(base, 1, AuthorityEnd(base)) \o href
    ELSE LET slashes == {i \in (AuthorityEnd(base) + 1)..Len(base) :
                            base[i] = "/"}
         IN  IF slashes = {} THEN base \o SLASH \o href
             ELSE SubSeq(base, 1, CHOOSE i \in slashes :
                                      \A j \in slashes : j <= i) \o href

\* "https://example.com/about"
ResultAbout ==
    <<"h","t","t","p","s",":","/","/","e","x","a","m","p","l","e",".","c","o","m","/","a","b","o","u","t">>
\* "https://cdn.example.com/x"
ResultCdn ==
    <<"h","t","t","p","s",":","/","/","c","d","n",".","e","x","a","m","p","l","e",".","c","o","m","/","x">>
\* "https://example.com/a/relative.html"
ResultRelative ==
    <<"h","t","t","p","s",":","/","/","e","x","a","m","p","l","e",".","c","o","m","/","a","/","r","e","l","a","t","i","v","e",".","h","t","m","l">>

\* the five rows of the resolver table
ResolverTable ==
    (Returned /\ resolver.base_url = BaseTable) =>
        /\ resolver.relative_url = HrefAbout => resolver.result = ResultAbout
        /\ resolver.relative_url = HrefCdn => resolver.result = ResultCdn
        /\ resolver.relative_url = HrefOther => resolver.result = HrefOther
        /\ resolver.relative_url = HrefFrag => resolver.result = <<>>
        /\ resolver.relative_url = HrefRelative =>
               resolver.result = ResultRelative

\* C14: the table holds and, for every base that has "//" and every href, the
\* result is the one the five rules give.
C14_ResolverFollowsRules ==
    /\ ResolverTable
    /\ (Returned /\ HasSlashes(resolver.base_url)) =>
           resolver.result = SpecResolve(resolver.base_url,
                                         resolver.relative_url)

\* What does hold: the table, and the five rules for http:// and https://
\* bases, where position 7 is inside the scheme's "//".
RulesOnHttpBases ==
    /\ ResolverTable
    /\ (Returned /\ Absolute(resolver.base_url)) =>
           resolver.result = SpecResolve(resolver.base_url,
                                         resolver.relative_url)

\* C15 as stated: for a base without "//" the result is none for every href.
C15_NoneWithoutSlashes ==
    (Returned /\ ~HasSlashes(resolver.base_url)) => resolver.result = <<>>

\* C15 as the code has it: for a base without "//", a root-relative href
\* gives none, a scheme-relative href gives none exactly when the base has no
\* colon either, an absolute href comes back unchanged and a relative path is
\* joined to the base.
C15_NoneOnlyWhereBaseIsParsed ==
    (Returned /\ ~HasSlashes(resolver.base_url)) =>
        LET base == resolver.base_url
            href == resolver.relative_url
            last == RFind(base, "/")
        IN  IF Rejected(href) THEN resolver.result = <<>>
            ELSE IF Absolute(href) THEN resolver.result = href
            ELSE IF StartsWith(href, SLASHSLASH)
            THEN /\ (resolver.result = <<>>) <=> (SchemeOf(base) = <<>>)
                 /\ resolver.result \in {<<>>, SchemeOf(base) \o href}
            ELSE IF StartsWith(href, SLASH) THEN resolver.result = <<>>
            ELSE resolver.result =
                    (IF last > ProtocolIndex THEN SubSeq(base, 1, last + 1)
                     ELSE base \o SLASH) \o href

\* a root-relative href against a base without "//" has returned none
C15_Witness ==
    /\ Returned
    /\ ~HasSlashes(resolver.base_url)
    /\ ~Rejected(resolver.relative_url)
    /\ StartsWith(resolver.relative_url, SLASH)
    /\ ~StartsWith(resolver.relative_url, SLASHSLASH)
    /\ resolver.result = <<>>

====
